---- MODULE Spec2Model ----
(***************************************************************************)
(* A model of telegram_from_serial.py: the capture loop of main() (open   *)
(* the port, collect lines up to the '!' line, close, validate, decode,   *)
(* print) and the value cleaner clean_value().                             *)
(*                                                                         *)
(* A byte string (Python bytes) and a text (Python str) are both          *)
(* sequences of one-character strings; str(bytes) is the conversion       *)
(* between the two and is modelled by what it does (Str below).           *)
(***************************************************************************)
EXTENDS Integers, Sequences, FiniteSets, TLC

(***************************************************************************)
(* Bounds of the model.                                                    *)
(***************************************************************************)
\* Largest iteration limit (--iter) tried.
MaxIter == 2
\* Largest number of empty reads (read time-outs) the source gives per cycle.
MaxEmpty == 1
\* Largest number of freely chosen last digits of the numerals given to
\* clean_value.
MaxFrac == 2

(***************************************************************************)
(* Sequence helpers.                                                       *)
(***************************************************************************)
RECURSIVE Flatten(_)
Flatten(ss) == IF ss = <<>> THEN <<>> ELSE Head(ss) \o Flatten(Tail(ss))

\* s[a..b] with 1-based inclusive bounds, empty when a > b.
Slice(s, a, b) == IF a > b THEN <<>> ELSE SubSeq(s, a, b)

\* Does sub occur in s at position i?
OccursAt(s, sub, i) ==
    /\ i >= 1
    /\ i + Len(sub) - 1 <= Len(s)
    /\ \A j \in 1..Len(sub) : s[i + j - 1] = sub[j]

\* Python: sub in s
Contains(s, sub) == \E i \in 1..(Len(s) + 1) : OccursAt(s, sub, i)

Digits == {"0","1","2","3","4","5","6","7","8","9"}

(***************************************************************************)
(* str(bytes): the text b'...' holding the bytes with line breaks, the    *)
(* backslash and the quote written as escape sequences.                   *)
(***************************************************************************)
ReprByte(c) ==
    CASE c = "\r" -> <<"\\","r">>
      [] c = "\n" -> <<"\\","n">>
      [] c = "\t" -> <<"\\","t">>
      [] c = "\\" -> <<"\\","\\">>
      [] c = "'"  -> <<"\\","'">>
      [] OTHER    -> <<c>>

Str(bytes) ==
    <<"b","'">> \o Flatten([i \in 1..Len(bytes) |-> ReprByte(bytes[i])]) \o <<"'">>

(***************************************************************************)
(* crcmod.predefined 'crc16': CRC-16/ARC, polynomial 0x8005 reflected     *)
(* (0xA001), initial value 0, no final xor.                               *)
(***************************************************************************)
Ord ==
    "\n" :> 10 @@ "\r" :> 13 @@ "!" :> 33 @@ "'" :> 39 @@ "(" :> 40 @@ ")" :> 41 @@
    "*" :> 42 @@ "-" :> 45 @@ "." :> 46 @@ "/" :> 47 @@ "0" :> 48 @@ "1" :> 49 @@
    "2" :> 50 @@ "3" :> 51 @@ "4" :> 52 @@ "5" :> 53 @@ "6" :> 54 @@ "7" :> 55 @@
    "8" :> 56 @@ "9" :> 57 @@ ":" :> 58 @@ "A" :> 65 @@ "B" :> 66 @@ "C" :> 67 @@
    "D" :> 68 @@ "E" :> 69 @@ "F" :> 70 @@ "S" :> 83 @@ "W" :> 87 @@ "X" :> 88 @@
    "\\" :> 92 @@ "b" :> 98 @@ "h" :> 104 @@ "k" :> 107 @@ "m" :> 109 @@
    "n" :> 110 @@ "r" :> 114

CrcPoly == 40961

RECURSIVE Xor(_, _)
Xor(a, b) ==
    IF a = 0 THEN b
    ELSE IF b = 0 THEN a
    ELSE (((a % 2) + (b % 2)) % 2) + 2 * Xor(a \div 2, b \div 2)

RECURSIVE CrcShift(_, _)
CrcShift(c, n) ==
    IF n = 0 \/ c < 0 THEN c
    ELSE CrcShift(IF c % 2 = 1 THEN Xor(c \div 2, CrcPoly) ELSE c \div 2, n - 1)

\* The register after bytes[lo..hi], starting from c.  The bytes are taken in
\* order; the range is halved, and the register looked at on entry (it is
\* never negative), only to keep the evaluation shallow.
RECURSIVE CrcRange(_, _, _, _)
CrcRange(bytes, lo, hi, c) ==
    IF lo > hi \/ c < 0 THEN c
    ELSE IF lo = hi THEN CrcShift(Xor(c, Ord[bytes[lo]]), 8)
    ELSE LET mid == (lo + hi) \div 2
         IN  CrcRange(bytes, mid + 1, hi, CrcRange(bytes, lo, mid, c))

crc16(bytes) == CrcRange(bytes, 1, Len(bytes), 0)

(***************************************************************************)
(* Hexadecimal: int('0x' + digits, 16) and the meter's four-digit form.   *)
(***************************************************************************)
HexDigits == <<"0","1","2","3","4","5","6","7","8","9","A","B","C","D","E","F">>

HexDigitVal(c) == (CHOOSE i \in 1..16 : HexDigits[i] = c) - 1

RECURSIVE HexValFrom(_, _, _)
HexValFrom(s, i, acc) ==
    IF i > Len(s) THEN acc ELSE HexValFrom(s, i + 1, 16 * acc + HexDigitVal(s[i]))

\* int() ignores surrounding white space, here the line break.
HexVal(s) == HexValFrom(SelectSeq(s, LAMBDA c : c \notin {"\r", "\n"}), 1, 0)

Hex4(n) ==
    << HexDigits[((n \div 4096) % 16) + 1], HexDigits[((n \div 256) % 16) + 1],
       HexDigits[((n \div 16) % 16) + 1],   HexDigits[(n % 16) + 1] >>

(***************************************************************************)
(* Python floats.  A float is written with n and k for n / 10^k, n not     *)
(* divisible by 10 unless k = 0, so that two floats are equal exactly     *)
(* when the tuples are.  float(text) is modelled for texts over digits,   *)
(* '.', and the characters that make a text unparseable; signs, exponents *)
(* and white space do not occur in the texts of the model.  The numerals  *)
(* of the model have few enough digits that two of them denote the same   *)
(* double exactly when they denote the same decimal number.               *)
(***************************************************************************)
RECURSIVE Pow10(_)
Pow10(k) == IF k = 0 THEN 1 ELSE 10 * Pow10(k - 1)

RECURSIVE Normalize(_, _)
Normalize(n, k) == IF k > 0 /\ n % 10 = 0 THEN Normalize(n \div 10, k - 1) ELSE <<n, k>>

DigitVal(c) == HexDigitVal(c)

RECURSIVE DigitsVal(_, _, _)
DigitsVal(s, i, acc) ==
    IF i > Len(s) THEN acc ELSE DigitsVal(s, i + 1, 10 * acc + DigitVal(s[i]))

IsNumeral(s) ==
    /\ \A i \in 1..Len(s) : s[i] \in Digits \cup {"."}
    /\ Cardinality({i \in 1..Len(s) : s[i] = "."}) <= 1
    /\ \E i \in 1..Len(s) : s[i] \in Digits

\* What a call that should give a float gives: <<"float", n, k>>, or ValueError
\* when it raises.
ValueError == <<"ValueError", 0, 0>>

Float(n, k) == <<"float">> \o Normalize(n, k)

\* float(text)
float(s) ==
    IF ~IsNumeral(s) THEN ValueError
    ELSE LET dots == {i \in 1..Len(s) : s[i] = "."}
             k    == IF dots = {} THEN 0 ELSE Len(s) - (CHOOSE i \in dots : TRUE)
             ds   == SelectSeq(s, LAMBDA c : c # ".")
         IN  Float(DigitsVal(ds, 1, 0), k)

(***************************************************************************)
(* str.lstrip(chars), str.rstrip(chars), re.findall('\((.*?)\)', text).   *)
(***************************************************************************)
RECURSIVE lstrip(_, _)
lstrip(s, chars) ==
    IF s # <<>> /\ Head(s) \in chars THEN lstrip(Tail(s), chars) ELSE s

RECURSIVE rstrip(_, _)
rstrip(s, chars) ==
    IF s # <<>> /\ s[Len(s)] \in chars THEN rstrip(SubSeq(s, 1, Len(s) - 1), chars) ELSE s

\* The first ')' after position j, or 0.
NextClose(s, j) ==
    LET ks == {k \in (j + 1)..Len(s) : s[k] = ")"}
    IN  IF ks = {} THEN 0 ELSE CHOOSE k \in ks : \A m \in ks : k <= m

\* A match of \((.*?)\) starts at j: a '(' whose nearest ')' comes before
\* any line feed ('.' does not match a line feed).
GroupAt(s, j) ==
    /\ s[j] = "("
    /\ NextClose(s, j) # 0
    /\ \A m \in (j + 1)..(NextClose(s, j) - 1) : s[m] # "\n"

RECURSIVE FindAllFrom(_, _)
FindAllFrom(s, i) ==
    LET js == {j \in i..Len(s) : GroupAt(s, j)}
    IN  IF js = {} THEN <<>>
        ELSE LET j == CHOOSE x \in js : \A y \in js : x <= y
                 k == NextClose(s, j)
             IN  <<Slice(s, j + 1, k - 1)>> \o FindAllFrom(s, k + 1)

findall(s) == FindAllFrom(s, 1)

(***************************************************************************)
(* clean_value(value): the float of a raw payload, or ValueError when     *)
(* the tuple unpacking or float() raises.                                  *)
(***************************************************************************)
StripLeft   == {"\\", "("}
StripGas    == {"\\", ")", "*", "m", "3"}
StripPlain  == {"\\", ")", "*", "k", "W", "h", "A"}

\* A slip that strips the characters of every unit, m3 too, from every payload.
clean_value_gasStrip(value) ==
    IF Contains(value, <<"m","3">>)
    THEN LET groups == findall(value)
         IN  IF Len(groups) # 2 THEN ValueError
             ELSE float(rstrip(lstrip(groups[2], StripLeft), StripGas))
    ELSE float(rstrip(lstrip(value, StripLeft), StripPlain \cup StripGas))

clean_value(value) ==
    IF Contains(value, <<"m","3">>)
    THEN LET groups == findall(value)
         IN  IF Len(groups) # 2 THEN ValueError
             ELSE float(rstrip(lstrip(groups[2], StripLeft), StripGas))
    ELSE float(rstrip(lstrip(value, StripLeft), StripPlain))

(***************************************************************************)
(* The registry of known codes (main, lines 23-52).                        *)
(***************************************************************************)
gas_meter == <<"1">>

list_of_interesting_codes ==
    { <<"1","-","0",":","1",".","8",".","1">>,
      <<"1","-","0",":","1",".","8",".","2">>,
      <<"1","-","0",":","2",".","8",".","1">>,
      <<"1","-","0",":","2",".","8",".","2">>,
      <<"0","-","0",":","9","6",".","1","4",".","0">>,
      <<"1","-","0",":","1",".","7",".","0">>,
      <<"1","-","0",":","2",".","7",".","0">>,
      <<"0","-","0",":","1","7",".","0",".","0">>,
      <<"0","-","0",":","9","6",".","3",".","1","0">>,
      <<"0","-","0",":","9","6",".","7",".","2","1">>,
      <<"0","-","0",":","9","6",".","7",".","9">>,
      <<"1","-","0",":","3","2",".","3","2",".","0">>,
      <<"1","-","0",":","5","2",".","3","2",".","0">>,
      <<"1","-","0",":","7","2",":","3","2",".","0">>,
      <<"1","-","0",":","3","2",".","3","6",".","0">>,
      <<"1","-","0",":","5","2",".","3","6",".","0">>,
      <<"1","-","0",":","7","2",".","3","6",".","0">>,
      <<"1","-","0",":","3","1",".","7",".","0">>,
      <<"1","-","0",":","5","1",".","7",".","0">>,
      <<"1","-","0",":","7","1",".","7",".","0">>,
      <<"1","-","0",":","2","1",".","7",".","0">>,
      <<"1","-","0",":","4","1",".","7",".","0">>,
      <<"1","-","0",":","6","1",".","7",".","0">>,
      <<"1","-","0",":","2","2",".","7",".","0">>,
      <<"1","-","0",":","4","2",".","7",".","0">>,
      <<"1","-","0",":","6","2",".","7",".","0">>,
      <<"0","-">> \o gas_meter \o <<":","2","4",".","2",".","1">> }

Code_1_8_1 == <<"1","-","0",":","1",".","8",".","1">>
Code_1_8_2 == <<"1","-","0",":","1",".","8",".","2">>
Code_2_8_1 == <<"1","-","0",":","2",".","8",".","1">>
Code_2_8_2 == <<"1","-","0",":","2",".","8",".","2">>
Code_1_7_0 == <<"1","-","0",":","1",".","7",".","0">>
Code_2_7_0 == <<"1","-","0",":","2",".","7",".","0">>

(***************************************************************************)
(* The lines a meter sends.  Each telegram of the model is a sequence of  *)
(* these, followed by the '!' line the meter computes over it.            *)
(***************************************************************************)
LineHeader ==
    <<"/","X","5","\r","\n">>
LineStamp ==
    <<"0","-","0",":","1",".","0",".","0","(","2","0","0","1","0","2","1","5","1","4","1","5","S",")","\r","\n">>
LineE181 ==
    <<"1","-","0",":","1",".","8",".","1","(","0","0","0","1","2","3",".","4","5","6","*","k","W","h",")","\r","\n">>
LineE182 ==
    <<"1","-","0",":","1",".","8",".","2","(","0","0","0","0","0","1",".","5","0","0","*","k","W","h",")","\r","\n">>
LineE281 ==
    <<"1","-","0",":","2",".","8",".","1","(","0","0","0","0","0","0",".","2","5","0","*","k","W","h",")","\r","\n">>
LineE282 ==
    <<"1","-","0",":","2",".","8",".","2","(","0","0","0","0","0","0",".","0","0","0","*","k","W","h",")","\r","\n">>
LineP170 ==
    <<"1","-","0",":","1",".","7",".","0","(","0","0",".","3","0","0","*","k","W",")","\r","\n">>
LineP170b ==
    <<"1","-","0",":","1",".","7",".","0","(","0","0",".","2","4","4","*","k","W",")","\r","\n">>
LineP270 ==
    <<"1","-","0",":","2",".","7",".","0","(","0","0",".","0","5","0","*","k","W",")","\r","\n">>
LineUnknown ==
    <<"0","-","0",":","9","6",".","1",".","1","(","4","B","4","1",")","\r","\n">>
LineBad ==
    <<"0","-","0",":","9","6",".","1","4",".","0","(","*","k","W",")","\r","\n">>
LineGas ==
    <<"0","-","1",":","2","4",".","2",".","1","(","2","0","0","1","0","2","1","5","1","4","1","5","S",")","(","0","0","0","0","1",".","0","0","1","*","m","3",")","\r","\n">>

CRLF == <<"\r","\n">>

Feeds ==
    { <<LineStamp, LineE181, LineP170, LineP270>>,
      <<LineHeader, LineP170, LineP270>>,
      <<LineHeader, LineUnknown, LineP170, LineP170b, LineP270>>,
      <<LineHeader, LineBad, LineP170, LineP270>>,
      <<LineHeader, LineGas, LineP170, LineP270>>,
      <<LineHeader, LineE181, LineE182, LineE281, LineE282, LineP170, LineP270>> }

\* The CRC-16 the meter computes for each telegram: over its bytes through '!'.
MeterCrc == [lines \in Feeds |-> crc16(Flatten(lines) \o <<"!">>)]

\* The '!' line of a telegram: the CRC-16 of the telegram through '!' in four
\* hexadecimal digits when intact, another value when corrupted in transit.
TerminatorLine(lines, intact) ==
    <<"!">> \o Hex4(IF intact THEN MeterCrc[lines] ELSE (MeterCrc[lines] + 1) % 65536)
            \o CRLF

(***************************************************************************)
(* The frame assembler's and the field decoder's text operations.          *)
(***************************************************************************)
\* re.match(b'(?=!)', telegram_line)
IsChecksumLine(line) == line # <<>> /\ line[1] = "!"

\* pattern = re.compile('\r\n(?=!)'); the positions of pattern.finditer(text)
PatternMatches(text) ==
    {i \in 1..(Len(text) - 2) : text[i] = "\r" /\ text[i + 1] = "\n" /\ text[i + 2] = "!"}

\* The separator of telegram.split("\\r\\n'b'"): backslash r backslash n ' b '
Separator == <<"\\","r","\\","n","'","b","'">>

\* str.split(sep): the pieces between the occurrences of sep, taken from the
\* left without overlap.
RECURSIVE SplitFrom(_, _, _)
SplitFrom(s, sep, i) ==
    LET js == {j \in i..Len(s) : OccursAt(s, sep, j)}
    IN  IF js = {} THEN <<Slice(s, i, Len(s))>>
        ELSE LET j == CHOOSE x \in js : \A y \in js : x <= y
             IN  <<Slice(s, i, j - 1)>> \o SplitFrom(s, sep, j + Len(sep))

split(s, sep) == SplitFrom(s, sep, 1)

\* re.match('\\d', telegram_line)
StartsWithDigit(line) == line # <<>> /\ line[1] \in Digits

\* The position of the first '(' of a line, or 0.
FirstParen(line) ==
    LET js == {j \in 1..Len(line) : line[j] = "("}
    IN  IF js = {} THEN 0 ELSE CHOOSE j \in js : \A m \in js : j <= m

\* ''.join(re.split('(\\()', telegram_line)[:1])
CodeOf(line) ==
    IF FirstParen(line) = 0 THEN line ELSE Slice(line, 1, FirstParen(line) - 1)

\* ''.join(re.split('(\\()', telegram_line)[1:])
ValueOf(line) ==
    IF FirstParen(line) = 0 THEN <<>> ELSE Slice(line, FirstParen(line), Len(line))

EmptyDict == [c \in {} |-> <<>>]

DictSet(d, k, v) == [c \in (DOMAIN d) \cup {k} |-> IF c = k THEN v ELSE d[c]]

RECURSIVE DecodeFrom(_, _, _)
DecodeFrom(segs, i, d) ==
    IF i > Len(segs) THEN d
    ELSE DecodeFrom(segs, i + 1,
                    IF StartsWithDigit(segs[i])
                    THEN DictSet(d, CodeOf(segs[i]), ValueOf(segs[i]))
                    ELSE d)

\* The dictionary telegram_values built from the buffer (main, lines 199-215).
DecodeTelegram(text) == DecodeFrom(split(text, Separator), 1, EmptyDict)

(***************************************************************************)
(* Printing (main, lines 242-273).                                         *)
(***************************************************************************)
\* int((a - b) * 1000) as "%6i" prints it: the product cut toward zero.  The
\* subtraction is done in decimal; for the readings of the model the double
\* arithmetic of Python gives the same integer.
NetPower(a, b) ==
    LET K == IF a[3] > b[3] THEN a[3] ELSE b[3]
        d == (a[2] * Pow10(K - a[3]) - b[2] * Pow10(K - b[3])) * 1000
    IN  IF d >= 0 THEN d \div Pow10(K) ELSE -((-d) \div Pow10(K))

TableCodes == {Code_1_8_1, Code_1_8_2, Code_2_8_1, Code_2_8_2, Code_1_7_0, Code_2_7_0}
PowerCodes == {Code_1_7_0, Code_2_7_0}

PrintsTable(fmt, it) == fmt = "table" \/ (fmt = "cron" /\ it = 0)
PrintsPower(fmt)     == fmt = "power" \/ fmt = "cron"

\* The codes the loop of lines 224-226 passes to clean_value.
KnownCodes(d) == (DOMAIN d) \cap list_of_interesting_codes

\* The values that loop computes.
ReadingsOf(d) == [c \in KnownCodes(d) |-> clean_value(d[c])]

\* The exception lines 224-273 raise for dictionary d, or "" for none.
EmitException(d, fmt, it) ==
    IF \E c \in KnownCodes(d) : clean_value(d[c]) = ValueError THEN "ValueError"
    ELSE IF PrintsTable(fmt, it) /\ ~(TableCodes \subseteq DOMAIN d) THEN "KeyError"
    ELSE IF PrintsPower(fmt) /\ ~(PowerCodes \subseteq DOMAIN d) THEN "KeyError"
    ELSE ""

NetPowerOf(d) == NetPower(clean_value(d[Code_1_7_0]), clean_value(d[Code_2_7_0]))

\* The lines printed for dictionary d.
Printed(d, fmt, it) ==
    (IF PrintsTable(fmt, it)
     THEN << <<"table", clean_value(d[Code_1_8_1]), clean_value(d[Code_1_8_2]),
               clean_value(d[Code_2_8_1]), clean_value(d[Code_2_8_2]), NetPowerOf(d)>> >>
     ELSE <<>>)
    \o (IF PrintsPower(fmt) THEN << <<"power", NetPowerOf(d)>> >> ELSE <<>>)

(***************************************************************************)
(* The state of main().                                                    *)
(***************************************************************************)
VARIABLES
    pc,                  \* where main() is: "loop", "collect", "close", "validate",
                         \* "decode", "emit", "done", or "exited" / "crashed"
    iIter,               \* the iteration counter
    maxIter,             \* args.iter
    print_format,        \* "power", "table" or "cron"
    serOpen,             \* is the serial port open?
    telegram,            \* the buffer (a text)
    telegram_line,       \* the line last read (bytes), later the line last decoded
    checksum_found,
    good_checksum,
    given_checksum,      \* Unbound until line 183 assigns it
    calculated_checksum, \* Unbound until line 185 assigns it
    telegram_values,     \* the dictionary code -> raw payload
    readings,            \* the values clean_value gave for the known codes
    output,              \* the lines the last completed cycle printed
    exc,                 \* the exception that ended the process, "" for none
    feed,                \* the telegram the meter sends (without its '!' line)
    fpos,                \* how many lines of feed were read in this cycle
    nEmpty,              \* how many reads of this cycle returned no bytes
    linesRead,           \* the lines readline() returned in this cycle, in order
    readFailed,          \* did readline() raise in this cycle?
    srcError,            \* "open" or "close" once that call raised, else ""
    nOpen,               \* how many times ser.open() has returned
    cv_value,            \* the argument of a call of clean_value on its own
    cv_result,           \* its result
    cv_numeral,          \* the numeral the argument was built around
    cv_kind              \* "gas" or "plain": how it was built

mainVars == <<pc, iIter, maxIter, print_format, serOpen, telegram, telegram_line,
              checksum_found, good_checksum, given_checksum, calculated_checksum,
              telegram_values, readings, output, exc>>
srcVars  == <<feed, fpos, nEmpty, linesRead, readFailed, srcError, nOpen>>
cvVars   == <<cv_value, cv_result, cv_numeral, cv_kind>>
vars     == <<mainVars, srcVars, cvVars>>

\* A local of main() that no assignment has reached yet.
Unbound == -1

Formats == {"power", "table", "cron"}

NoResult == <<"none", 0, 0>>

Init ==
    /\ pc = "loop"
    /\ iIter = 0
    /\ maxIter \in 1..MaxIter
    /\ print_format \in Formats
    /\ serOpen = FALSE
    /\ telegram = <<>>
    /\ telegram_line = <<>>
    /\ checksum_found = FALSE
    /\ good_checksum = FALSE
    /\ given_checksum = Unbound
    /\ calculated_checksum = Unbound
    /\ telegram_values = EmptyDict
    /\ readings = EmptyDict
    /\ output = <<>>
    /\ exc = ""
    /\ feed \in Feeds
    /\ fpos = 0
    /\ nEmpty = 0
    /\ linesRead = <<>>
    /\ readFailed = FALSE
    /\ srcError = ""
    /\ nOpen = 0
    /\ cv_value = <<>>
    /\ cv_result = NoResult
    /\ cv_numeral = <<>>
    /\ cv_kind = "none"

(***************************************************************************)
(* The capture loop (main, lines 131-276).                                 *)
(***************************************************************************)
\* Lines 133-141 without line 140: the buffer of the cycle before stays.
Open_keepsBuffer ==
    /\ pc = "loop"
    /\ iIter < maxIter
    /\ IF serOpen
       THEN /\ pc' = "exited"
            /\ exc' = "SystemExit"
            /\ srcError' = "open"
            /\ UNCHANGED <<serOpen, telegram, checksum_found, feed, fpos, nEmpty,
                           linesRead, readFailed, nOpen>>
       ELSE /\ pc' = "collect"
            /\ serOpen' = TRUE
            /\ checksum_found' = FALSE
            /\ fpos' = 0
            /\ nEmpty' = 0
            /\ linesRead' = <<>>
            /\ readFailed' = FALSE
            /\ nOpen' = nOpen + 1
            /\ UNCHANGED <<exc, feed, srcError, telegram>>
    /\ UNCHANGED <<iIter, maxIter, print_format, telegram_line, good_checksum,
                   given_checksum, calculated_checksum, telegram_values, readings,
                   output, cvVars>>

\* Lines 133-141: the loop test and ser.open().  Opening a port that is open
\* raises, and the handler of line 142 ends the process with sys.exit.
Open ==
    /\ pc = "loop"
    /\ iIter < maxIter
    /\ IF serOpen
       THEN /\ pc' = "exited"
            /\ exc' = "SystemExit"
            /\ srcError' = "open"
            /\ UNCHANGED <<serOpen, telegram, checksum_found, feed, fpos, nEmpty,
                           linesRead, readFailed, nOpen>>
       ELSE /\ pc' = "collect"
            /\ serOpen' = TRUE
            /\ telegram' = <<>>
            /\ checksum_found' = FALSE
            /\ fpos' = 0
            /\ nEmpty' = 0
            /\ linesRead' = <<>>
            /\ readFailed' = FALSE
            /\ nOpen' = nOpen + 1
            /\ UNCHANGED <<exc, feed, srcError>>
    /\ UNCHANGED <<iIter, maxIter, print_format, telegram_line, good_checksum,
                   given_checksum, calculated_checksum, telegram_values, readings,
                   output, cvVars>>

\* A slip that treats a failing ser.open() like a failing read: report it and
\* go on with the next cycle.
OpenFail_goesOn ==
    /\ pc = "loop"
    /\ iIter < maxIter
    /\ pc' = "loop"
    /\ iIter' = iIter + 1
    /\ srcError' = "open"
    /\ UNCHANGED <<maxIter, print_format, serOpen, telegram, telegram_line,
                   checksum_found, good_checksum, given_checksum, calculated_checksum,
                   telegram_values, readings, output, exc, feed, fpos, nEmpty,
                   linesRead, readFailed, nOpen, cvVars>>

\* Lines 142-146: ser.open() raises and sys.exit ends the process (SystemExit
\* is not an Exception, so the handler of line 165 lets it pass).
OpenFail ==
    /\ pc = "loop"
    /\ iIter < maxIter
    /\ pc' = "exited"
    /\ exc' = "SystemExit"
    /\ srcError' = "open"
    /\ UNCHANGED <<iIter, maxIter, print_format, serOpen, telegram, telegram_line,
                   checksum_found, good_checksum, given_checksum, calculated_checksum,
                   telegram_values, readings, output, feed, fpos, nEmpty, linesRead,
                   readFailed, nOpen, cvVars>>

\* Line 133: the loop ends.
Finish ==
    /\ pc = "loop"
    /\ iIter >= maxIter
    /\ pc' = "done"
    /\ UNCHANGED <<iIter, maxIter, print_format, serOpen, telegram, telegram_line,
                   checksum_found, good_checksum, given_checksum, calculated_checksum,
                   telegram_values, readings, output, exc, srcVars, cvVars>>

\* Lines 151-163: one turn of the inner loop with the line readline() returned.
Collect(line) ==
    /\ pc = "collect"
    /\ ~checksum_found
    /\ telegram_line' = line
    /\ telegram' = telegram \o Str(line)
    /\ checksum_found' = IsChecksumLine(line)
    /\ pc' = IF IsChecksumLine(line) THEN "close" ELSE "collect"
    /\ linesRead' = Append(linesRead, line)
    /\ UNCHANGED <<iIter, maxIter, print_format, serOpen, good_checksum,
                   given_checksum, calculated_checksum, telegram_values, readings,
                   output, exc, feed, readFailed, srcError, nOpen, cvVars>>

\* readline() returns the next line of the telegram.
ReadData ==
    /\ fpos < Len(feed)
    /\ Collect(feed[fpos + 1])
    /\ fpos' = fpos + 1
    /\ UNCHANGED nEmpty

\* readline() returns the '!' line, intact or corrupted.
ReadTerminator ==
    /\ fpos = Len(feed)
    /\ \E intact \in BOOLEAN : Collect(TerminatorLine(feed, intact))
    /\ fpos' = fpos + 1
    /\ UNCHANGED nEmpty

\* readline() returns no bytes: the read timed out (ser.timeout, line 115) or
\* the source is exhausted.
ReadEmpty ==
    /\ nEmpty < MaxEmpty
    /\ Collect(<<>>)
    /\ nEmpty' = nEmpty + 1
    /\ UNCHANGED fpos

\* A slip that closes the port only when the collection completed.
ReadRaise_noClose ==
    /\ pc = "collect"
    /\ ~checksum_found
    /\ readFailed' = TRUE
    /\ pc' = "validate"
    /\ UNCHANGED <<iIter, maxIter, print_format, serOpen, telegram, telegram_line,
                   checksum_found, good_checksum, given_checksum, calculated_checksum,
                   telegram_values, readings, output, exc, feed, fpos, nEmpty,
                   linesRead, srcError, nOpen, cvVars>>

\* Lines 154, 165-168: readline() raises; the handler prints and goes on.
ReadRaise ==
    /\ pc = "collect"
    /\ ~checksum_found
    /\ readFailed' = TRUE
    /\ pc' = "close"
    /\ UNCHANGED <<iIter, maxIter, print_format, serOpen, telegram, telegram_line,
                   checksum_found, good_checksum, given_checksum, calculated_checksum,
                   telegram_values, readings, output, exc, feed, fpos, nEmpty,
                   linesRead, srcError, nOpen, cvVars>>

\* Lines 171-173: ser.close().
Close ==
    /\ pc = "close"
    /\ serOpen' = FALSE
    /\ pc' = "validate"
    /\ UNCHANGED <<iIter, maxIter, print_format, telegram, telegram_line,
                   checksum_found, good_checksum, given_checksum, calculated_checksum,
                   telegram_values, readings, output, exc, srcVars, cvVars>>

\* Lines 174-175: ser.close() raises and sys.exit ends the process.
CloseFail ==
    /\ pc = "close"
    /\ pc' = "exited"
    /\ exc' = "SystemExit"
    /\ srcError' = "close"
    /\ UNCHANGED <<iIter, maxIter, print_format, serOpen, telegram, telegram_line,
                   checksum_found, good_checksum, given_checksum, calculated_checksum,
                   telegram_values, readings, output, feed, fpos, nEmpty, linesRead,
                   readFailed, nOpen, cvVars>>

\* Lines 180-197 without line 189: the verdict is left to the loop over the
\* matches of the pattern alone.
Validate_noLine189 ==
    /\ pc = "validate"
    /\ IF PatternMatches(telegram) # {}
       THEN /\ pc' = "crashed"
            /\ exc' = "AttributeError"
            /\ UNCHANGED good_checksum
       ELSE /\ UNCHANGED good_checksum
            /\ IF good_checksum'
               THEN pc' = "decode" /\ UNCHANGED exc
               ELSE IF given_checksum = Unbound
               THEN pc' = "crashed" /\ exc' = "UnboundLocalError"
               ELSE pc' = "loop" /\ UNCHANGED exc
    /\ iIter' = IF pc' = "loop" THEN iIter + 1 ELSE iIter
    /\ UNCHANGED <<maxIter, print_format, serOpen, telegram, telegram_line,
                   checksum_found, given_checksum, calculated_checksum,
                   telegram_values, readings, output, srcVars, cvVars>>

\* Lines 180-197: the checksum.  The body of the loop over the matches of the
\* pattern calls .decode on a text, which raises AttributeError; with no match
\* the body does not run.  Line 189 then sets good_checksum, and line 190
\* chooses the branch; its first branch prints given_checksum, which raises
\* UnboundLocalError while no assignment has reached it.
Validate ==
    /\ pc = "validate"
    /\ IF PatternMatches(telegram) # {}
       THEN /\ pc' = "crashed"
            /\ exc' = "AttributeError"
            /\ UNCHANGED good_checksum
       ELSE /\ good_checksum' = TRUE
            /\ IF good_checksum'
               THEN pc' = "decode" /\ UNCHANGED exc
               ELSE IF given_checksum = Unbound
               THEN pc' = "crashed" /\ exc' = "UnboundLocalError"
               ELSE pc' = "loop" /\ UNCHANGED exc
    /\ iIter' = IF pc' = "loop" THEN iIter + 1 ELSE iIter
    /\ UNCHANGED <<maxIter, print_format, serOpen, telegram, telegram_line,
                   checksum_found, given_checksum, calculated_checksum,
                   telegram_values, readings, output, srcVars, cvVars>>

\* Lines 199-215: the dictionary of the buffer's data lines.
Decode ==
    /\ pc = "decode"
    /\ telegram_values' = DecodeTelegram(telegram)
    /\ telegram_line' = LET segs == split(telegram, Separator) IN segs[Len(segs)]
    /\ pc' = "emit"
    /\ UNCHANGED <<iIter, maxIter, print_format, serOpen, telegram, checksum_found,
                   good_checksum, given_checksum, calculated_checksum, readings,
                   output, exc, srcVars, cvVars>>

\* Lines 224-276: clean the known codes, print, count the iteration.  Nothing
\* catches what clean_value or the dictionary look-ups raise.
Emit ==
    /\ pc = "emit"
    /\ LET e == EmitException(telegram_values, print_format, iIter)
       IN  IF e # ""
           THEN /\ pc' = "crashed"
                /\ exc' = e
                /\ UNCHANGED <<iIter, readings, output>>
           ELSE /\ pc' = "loop"
                /\ readings' = ReadingsOf(telegram_values)
                /\ output' = Printed(telegram_values, print_format, iIter)
                /\ iIter' = iIter + 1
                /\ UNCHANGED exc
    /\ UNCHANGED <<maxIter, print_format, serOpen, telegram, telegram_line,
                   checksum_found, good_checksum, given_checksum, calculated_checksum,
                   telegram_values, srcVars, cvVars>>

Next ==
    \/ Open
    \/ OpenFail
    \/ Finish
    \/ ReadData
    \/ ReadTerminator
    \/ ReadEmpty
    \/ ReadRaise
    \/ Close
    \/ CloseFail
    \/ Validate
    \/ Decode
    \/ Emit

Spec == Init /\ [][Next]_vars

(***************************************************************************)
(* clean_value on its own: a payload is built around a numeral, as a gas  *)
(* reading '(T)(N*m3)' or as a plain reading '(N*U)' or '(N)', and         *)
(* clean_value is called on it.                                            *)
(***************************************************************************)
\* All digit strings of length n.
RECURSIVE DigitStrings(_)
DigitStrings(n) ==
    IF n = 0 THEN {<<>>}
    ELSE {Append(s, d) : s \in DigitStrings(n - 1), d \in Digits}

\* Every digit string of at most MaxFrac digits.
FreeDigits == UNION {DigitStrings(n) : n \in 0..MaxFrac}

IntParts  == { <<"0">>, <<"0","0">>, <<"0","0","0","0","1">>, <<"1","2","3">> }
FracHeads == { <<>>, <<"0","0">>, <<"2","4">> }

\* The numerals: digits, or digits '.' digits, ending in any digit.
Numerals ==
    {i \o t : i \in IntParts, t \in FreeDigits}
    \cup {i \o <<".">> \o h \o t : i \in IntParts, h \in FracHeads,
                                  t \in FreeDigits \ {<<>>}}

Timestamps == { <<"2","0","0","1","0","2","1","5","1","4","1","5","S">>,
                <<"2","0","1","2","0","2","1","5","1","4","1","5","W">> }

Units == { <<"*","k","W","h">>, <<"*","k","W">>, <<"*","A">>, <<>> }

GasPayload(t, n) == <<"(">> \o t \o <<")","(">> \o n \o <<"*","m","3",")">>

PlainPayload(n, u) == <<"(">> \o n \o u \o <<")">>

InitClean ==
    /\ pc = "clean"
    /\ iIter = 0
    /\ maxIter = 0
    /\ print_format = "power"
    /\ serOpen = FALSE
    /\ telegram = <<>>
    /\ telegram_line = <<>>
    /\ checksum_found = FALSE
    /\ good_checksum = FALSE
    /\ given_checksum = Unbound
    /\ calculated_checksum = Unbound
    /\ telegram_values = EmptyDict
    /\ readings = EmptyDict
    /\ output = <<>>
    /\ exc = ""
    /\ feed = <<>>
    /\ fpos = 0
    /\ nEmpty = 0
    /\ linesRead = <<>>
    /\ readFailed = FALSE
    /\ srcError = ""
    /\ nOpen = 0
    /\ cv_result = NoResult
    /\ cv_numeral \in Numerals
    /\ \/ /\ cv_kind = "gas"
          /\ \E t \in Timestamps : cv_value = GasPayload(t, cv_numeral)
       \/ /\ cv_kind = "plain"
          /\ \E u \in Units : cv_value = PlainPayload(cv_numeral, u)

\* The call clean_value(value) (lines 280-292).
CleanCall ==
    /\ pc = "clean"
    /\ cv_result = NoResult
    /\ cv_result' = clean_value(cv_value)
    /\ pc' = "cleaned"
    /\ UNCHANGED <<iIter, maxIter, print_format, serOpen, telegram, telegram_line,
                   checksum_found, good_checksum, given_checksum, calculated_checksum,
                   telegram_values, readings, output, exc, srcVars, cv_value,
                   cv_numeral, cv_kind>>

NextClean == CleanCall

SpecClean == InitClean /\ [][NextClean]_vars

(***************************************************************************)
(* What the claims speak of, said over the bytes the source delivered.    *)
(***************************************************************************)
\* The '!' line the cycle read.
TerminatorRead == linesRead[Len(linesRead)]

\* The integer value of the hex digits that follow '!'.
GivenOf(lines) == HexVal(Slice(lines[Len(lines)], 2, Len(lines[Len(lines)])))

\* CRC-16 over the received bytes from the first byte through '!'.
CalculatedOf(lines) == crc16(Flatten(SubSeq(lines, 1, Len(lines) - 1)) \o <<"!">>)

\* A line without its line break.
Chomp(line) == SelectSeq(line, LAMBDA c : c \notin {"\r", "\n"})

\* The lines read whose first character is a decimal digit.
DataLinesRead == {i \in 1..Len(linesRead) : StartsWithDigit(linesRead[i])}

(***************************************************************************)
(* The claims.                                                             *)
(***************************************************************************)

\* C1: the field decoder runs on a telegram only if the checksum given after
\* '!' equals the CRC-16 computed over the telegram through '!'; a telegram
\* whose checksum differs is not decoded.
C1_DecodedOnlyIfChecksumMatches ==
    (pc = "emit" /\ checksum_found) => GivenOf(linesRead) = CalculatedOf(linesRead)

\* C2: for every complete buffer the validator finds the terminator line and
\* performs the comparison, with given = the value of the hex digits after '!'
\* and calculated = CRC-16 over the received bytes through '!'.
C2_ValidatorCompares ==
    (pc \in {"decode", "emit"} /\ checksum_found) =>
        /\ given_checksum = GivenOf(linesRead)
        /\ calculated_checksum = CalculatedOf(linesRead)

\* C3: when a read raises after some lines were collected, the partial buffer
\* is discarded and no field entry from it is stored, decoded or emitted.
C3_ReadErrorDiscardsBuffer ==
    (readFailed /\ pc = "emit") => telegram_values = EmptyDict

\* C4: a read that returns an empty line (time-out, exhausted source) ends the
\* collection of the cycle: the cycle does not stay in the Collecting state.
C4_EmptyReadEndsCollecting ==
    ~(pc = "collect" /\ linesRead # <<>> /\ TerminatorRead = <<>>)

\* C5: the port is open only between the open at the start of a cycle and the
\* close that follows the line collection, whether the collection completed or
\* a read raised: it is closed while a telegram is validated or decoded, closed
\* when the next cycle opens it, and closed after a failed cycle.
C5_PortOpenOnlyWhileCollecting ==
    /\ pc \in {"validate", "decode", "emit", "loop", "done", "crashed"} => ~serOpen
    /\ pc \in {"collect", "close"} => serOpen

\* C5 witness: a read raised, the port was closed, the telegram is being
\* validated.
C5_Witness == readFailed /\ pc = "validate" /\ ~serOpen /\ linesRead # <<>>

\* C6: the assembler is Complete exactly when a line beginning with '!' has
\* been read, and then the buffer consists of exactly the lines read in this
\* cycle, in order, each with its line terminator, the '!' line last.
C6_BufferIsTheLinesRead ==
    /\ checksum_found <=> \E i \in 1..Len(linesRead) : IsChecksumLine(linesRead[i])
    /\ (pc \in {"close", "validate", "decode", "emit"} /\ checksum_found) =>
          /\ telegram = Flatten(linesRead)
          /\ IsChecksumLine(TerminatorRead)

\* C7: for every sequence of lines that ends with a '!' line, the raw mapping
\* has an entry for exactly the lines whose first character is a digit: the key
\* is the text before the first '(' and the value the text from that '(' up to
\* the line break.
C7_RawMappingOfDataLines ==
    (pc = "emit" /\ checksum_found) =>
        /\ DOMAIN telegram_values = {CodeOf(Chomp(linesRead[i])) : i \in DataLinesRead}
        /\ \A c \in DOMAIN telegram_values :
              \E i \in DataLinesRead :
                  /\ CodeOf(Chomp(linesRead[i])) = c
                  /\ telegram_values[c] = ValueOf(Chomp(linesRead[i]))

\* C8: for every timestamp T and every decimal numeral N, cleaning '(T)(N*m3)'
\* yields exactly the numeric value of N.
C8_GasValue ==
    (cv_kind = "gas" /\ cv_result # NoResult) => cv_result = float(cv_numeral)

\* C9: for every decimal numeral N and unit tag U in {kWh, kW, A}, cleaning
\* '(N*U)', and the unit-less '(N)', yields exactly the numeric value of N.
C9_PlainValue ==
    (cv_kind = "plain" /\ cv_result # NoResult) => cv_result = float(cv_numeral)

\* C9 witness: '(00.244*kW)' was cleaned to 0.244.
C9_Witness ==
    /\ cv_value = <<"(","0","0",".","2","4","4","*","k","W",")">>
    /\ cv_result = <<"float", 244, 3>>

\* C10: a known code whose payload holds no parseable numeral gives a
\* recoverable decode error; it does not end the process or the capture loop.
C10_DecodeErrorDoesNotEndProcess ==
    ~(pc = "crashed" /\ exc = "ValueError" /\ checksum_found /\ ~readFailed)

\* C11, as claimed: a failure to open or to close the source aborts only that
\* cycle; the process is not terminated and a later cycle can still start.
C11_SourceErrorRecoverable ==
    srcError # "" => pc # "exited"

\* C11, amended: a failure to open or to close the source ends the process
\* with sys.exit; the cycle is not counted and no later cycle is started.
C11_SourceErrorEndsProcess ==
    srcError # "" => /\ pc = "exited"
                     /\ exc = "SystemExit"
                     /\ iIter < maxIter

\* C11 witness: ser.close() raised in the second cycle and the process is over.
C11_Witness == srcError = "close" /\ pc = "exited" /\ iIter = 1

\* The data lines read that carry code c.
LinesWithCode(c) == {i \in DataLinesRead : CodeOf(Chomp(linesRead[i])) = c}

\* The last of a non-empty set of positions.
Last(S) == CHOOSE i \in S : \A j \in S : j <= i

\* C12: when a code appears on more than one data line of a telegram, the raw
\* mapping holds one entry for it, and its value is the payload of the last
\* such line in the order received.
C12_LastDuplicateWins ==
    (pc = "emit" /\ checksum_found) =>
        \A i \in DataLinesRead :
            LET c == CodeOf(Chomp(linesRead[i]))
            IN  Cardinality(LinesWithCode(c)) > 1 =>
                    /\ c \in DOMAIN telegram_values
                    /\ telegram_values[c] =
                           ValueOf(Chomp(linesRead[Last(LinesWithCode(c))]))

\* C13: a data line whose code is not in the registry is kept in the raw
\* mapping with its payload untouched and is not among the decoded readings;
\* every code of the decoded readings is a registry code of a line read.
C13_UnknownCodesKeptNotDecoded ==
    (pc = "loop" /\ iIter > 0 /\ checksum_found) =>
        /\ \A i \in DataLinesRead :
              LET c == CodeOf(Chomp(linesRead[i]))
              IN  c \notin list_of_interesting_codes =>
                      /\ c \in DOMAIN telegram_values
                      /\ telegram_values[c] = ValueOf(Chomp(linesRead[i]))
                      /\ c \notin DOMAIN readings
        /\ \A c \in DOMAIN readings :
              /\ c \in list_of_interesting_codes
              /\ LinesWithCode(c) # {}

\* The bytes of each feed, and the CRC-16 of a byte sequence through '!',
\* looked up where the bytes are those of a feed.
FeedBytes == [lines \in Feeds |-> Flatten(lines)]

CrcThroughBang(bytes) ==
    IF \E lines \in Feeds : FeedBytes[lines] = bytes
    THEN MeterCrc[CHOOSE lines \in Feeds : FeedBytes[lines] = bytes]
    ELSE crc16(bytes \o <<"!">>)

\* C14: every telegram whose '!' line carries the CRC-16 of the bytes from the
\* start of the telegram through '!' is judged valid and goes on to be decoded.
C14_CorrectCrcIsDecoded ==
    [][(/\ pc = "validate"
        /\ checksum_found
        /\ GivenOf(linesRead) =
               CrcThroughBang(Flatten(SubSeq(linesRead, 1, Len(linesRead) - 1))))
            => (pc' = "decode" /\ good_checksum')]_vars

\* C14 witness: a telegram with the right checksum has been judged and waits
\* for the decoder.
C14_Witness ==
    /\ pc = "decode"
    /\ checksum_found
    /\ good_checksum
    /\ GivenOf(linesRead) =
           CrcThroughBang(Flatten(SubSeq(linesRead, 1, Len(linesRead) - 1)))

\* The lines of the end-to-end example, with the '!' line of their CRC-16.
E2ELines ==
    <<LineStamp, LineE181, LineP170, LineP270>>
        \o << TerminatorLine(<<LineStamp, LineE181, LineP170, LineP270>>, TRUE) >>

\* The readings the example expects: 123.456, 0.300 and 0.050.
E2EReadings ==
    [c \in {Code_1_8_1, Code_1_7_0, Code_2_7_0} |->
        IF c = Code_1_8_1 THEN Float(123456, 3)
        ELSE IF c = Code_1_7_0 THEN Float(300, 3)
        ELSE Float(50, 3)]

\* C15: once a cycle has read the lines '0-0:1.0.0(...)',
\* '1-0:1.8.1(000123.456*kWh)', '1-0:1.7.0(00.300*kW)', '1-0:2.7.0(00.050*kW)'
\* and the '!' line with the right CRC, it ends valid, its decoded readings are
\* 1-0:1.8.1: 123.456, 1-0:1.7.0: 0.300 and 1-0:2.7.0: 0.050 and no others,
\* and the net power derived from them is 250 W.
C15_EndToEnd ==
    (/\ linesRead = E2ELines
     /\ srcError = ""
     /\ pc \in {"loop", "done", "crashed"}) =>
        /\ pc # "crashed"
        /\ good_checksum
        /\ readings = E2EReadings
        /\ NetPowerOf(telegram_values) = 250

\* The buffer that lines 151-157 build from the lines read alone.
BufferOf(lines) == Flatten([i \in 1..Len(lines) |-> Str(lines[i])])

\* C16: nothing carries over between cycles.  When line collection starts the
\* buffer is empty and the completion flag is false; the verdict and the raw
\* mapping of a cycle are functions of the lines read in that cycle alone.
C16_NoCarryOver ==
    /\ (pc = "collect" /\ linesRead = <<>>) => (telegram = <<>> /\ ~checksum_found)
    /\ pc \in {"decode", "emit"} => good_checksum
    /\ pc = "emit" => telegram_values = DecodeTelegram(BufferOf(linesRead))

\* C16 witness: the second cycle has decoded its telegram, after a first cycle
\* that decoded one too.
C16_Witness ==
    /\ pc = "emit"
    /\ iIter = 1
    /\ checksum_found
    /\ telegram_values # EmptyDict
    /\ readings # EmptyDict

\* The positions of main() inside a cycle, between ser.open() and line 276.
InCycle == pc \in {"collect", "close", "validate", "decode", "emit"}

\* C17: with iteration limit n the source is opened at most n times; every
\* cycle, completed or failed with a read error, advances the counter by one
\* and is not retried; and when every cycle's line collection has ended, the
\* loop ends after exactly n cycles.
C17_ExactlyNCycles ==
    /\ nOpen <= maxIter
    /\ (InCycle \/ pc \in {"loop", "done"}) =>
           nOpen = iIter + (IF InCycle THEN 1 ELSE 0)
    /\ pc \in {"done", "crashed"} => (pc = "done" /\ iIter = maxIter /\ nOpen = maxIter)

====
